---- MODULE Spec2Model ----
(***************************************************************************)
(* Model of the scrape-categorize-persist pipeline of the unified scraper  *)
(* framework: the persistence gateway (core/db.py), the adapter registry   *)
(* and the example adapter (adapters/), and the per-target orchestrator    *)
(* scrape_target (main.py).  Two pipeline runs share one store and         *)
(* interleave at the granularity of one store call (each call is its own   *)
(* transaction) or one adapter call.                                       *)
(*                                                                         *)
(* Assumptions of the model: the store answers every query and the Source  *)
(* upsert; an item's processing fails only by an exception raised before   *)
(* insert_item commits; UTF-8 and base64 are computed byte by byte, an LZ4  *)
(* frame is a container whose block is kept as stored.                     *)
(***************************************************************************)
EXTENDS Integers, Sequences, FiniteSets, TLC

VARIABLES
    Source,     \* the rows of table "Source"
    Item,       \* the rows of table "Item"
    now,        \* the store's clock, read by NOW(): each transaction is later
                \* than the ones committed before it
    nextId,     \* the next value gen_random_uuid() hands out
    started,    \* number of scrape_target calls made so far
    run,        \* per run slot: position in scrape_target and its locals
    applied     \* the latest call of a function of core/ made on its own:
                \* the function, its arguments and what it returned

vars == <<Source, Item, now, nextId, started, run, applied>>

\* ------------------------------------------------------------------ bounds
MaxRuns == 2        \* scrape_target calls in one behaviour
MaxCodecLen == 3    \* characters of a text handed to compress_text on its own
MaxTextLen == 250   \* characters of a text a summary is built from on its own
MaxPhrases == 2     \* phrases of a text handed to categorize_content on its own

\* ------------------------------------------------------- program constants
MinTextLen == 50    \* example.py: text and len(text) > 50
SummaryLen == 200   \* main.py: item['text'][:200]
TagsPerCategory == 3 \* categorize.py: matches[:3]
TextPrefixLen == 2000 \* categorize.py: text[:2000]

Runs == {"r1", "r2"}

None == "None"

\* ------------------------------------------------------------ string helpers
\* Python `sub in s`
Contains(sub, s) ==
    \E i \in 1..(Len(s) - Len(sub) + 1) : SubSeq(s, i, i + Len(sub) - 1) = sub

\* Python s.startswith(p)
StartsWith(s, p) == Len(s) >= Len(p) /\ SubSeq(s, 1, Len(p)) = p

\* Python s[:n]
Prefix(s, n) == IF Len(s) > n THEN SubSeq(s, 1, n) ELSE s

RECURSIVE RStrip(_, _)
\* Python s.rstrip(c) for a one-character c
RStrip(s, c) ==
    IF Len(s) > 0 /\ SubSeq(s, Len(s), Len(s)) = c
    THEN RStrip(SubSeq(s, 1, Len(s) - 1), c)
    ELSE s

RECURSIVE LStrip(_, _)
\* Python s.lstrip(c) for a one-character c
LStrip(s, c) ==
    IF Len(s) > 0 /\ SubSeq(s, 1, 1) = c
    THEN LStrip(SubSeq(s, 2, Len(s)), c)
    ELSE s

\* Python s.strip(), with the space as the only whitespace character
Strip(s) == LStrip(RStrip(s, " "), " ")

UpperToLower ==
    [c \in {"A", "B", "C", "D", "E", "F", "G", "H", "I", "J", "K", "L", "M",
            "N", "O", "P", "Q", "R", "S", "T", "U", "V", "W", "X", "Y", "Z"} |->
        CASE c = "A" -> "a" [] c = "B" -> "b" [] c = "C" -> "c" [] c = "D" -> "d"
          [] c = "E" -> "e" [] c = "F" -> "f" [] c = "G" -> "g" [] c = "H" -> "h"
          [] c = "I" -> "i" [] c = "J" -> "j" [] c = "K" -> "k" [] c = "L" -> "l"
          [] c = "M" -> "m" [] c = "N" -> "n" [] c = "O" -> "o" [] c = "P" -> "p"
          [] c = "Q" -> "q" [] c = "R" -> "r" [] c = "S" -> "s" [] c = "T" -> "t"
          [] c = "U" -> "u" [] c = "V" -> "v" [] c = "W" -> "w" [] c = "X" -> "x"
          [] c = "Y" -> "y" [] c = "Z" -> "z"]

\* Python c.lower() for one ASCII character
LowerChar(c) == IF c \in DOMAIN UpperToLower THEN UpperToLower[c] ELSE c

RECURSIVE Lower(_)
\* Python s.lower() on ASCII text, character by character (by halves, which
\* keeps the recursion shallow)
Lower(s) ==
    IF Len(s) = 0 THEN s
    ELSE IF Len(s) = 1 THEN LowerChar(s)
    ELSE LET h == Len(s) \div 2
         IN  Lower(SubSeq(s, 1, h)) \o Lower(SubSeq(s, h + 1, Len(s)))

\* ------------------------------------------------------------ categorize.py
\* CATEGORY_KEYWORDS, in declaration order (dict iteration order)
CATEGORY_KEYWORDS == <<
    [category |-> "documentation",
     keywords |-> <<"docs", "documentation", "guide", "tutorial", "manual", "reference">>],
    [category |-> "news",
     keywords |-> <<"news", "article", "update", "announcement", "press", "release">>],
    [category |-> "product",
     keywords |-> <<"product", "feature", "pricing", "plan", "subscription", "service">>],
    [category |-> "support",
     keywords |-> <<"help", "support", "faq", "troubleshoot", "issue", "contact">>],
    [category |-> "legal",
     keywords |-> <<"terms", "privacy", "policy", "legal", "agreement", "disclaimer">>],
    [category |-> "general", keywords |-> << >>] >>

\* matches = [kw for kw in keywords if kw in combined]
Matches(keywords, combined) ==
    SelectSeq(keywords, LAMBDA kw : Contains(kw, combined))

\* the list without the cut
TakeAll(s, n) == s

\* s[:n] of a list
Take(s, n) == IF Len(s) > n THEN SubSeq(s, 1, n) ELSE s

SeqToSet(s) == {s[i] : i \in DOMAIN s}

RECURSIVE CategorizeLoopLastWins(_, _, _)
\* the loop with >= in place of >: the last category of a tie wins
CategorizeLoopLastWins(k, combined, acc) ==
    IF k > Len(CATEGORY_KEYWORDS) THEN acc
    ELSE LET category == CATEGORY_KEYWORDS[k].category
             matches == Matches(CATEGORY_KEYWORDS[k].keywords, combined)
             better == Len(matches) >= acc.max_matches
         IN  IF category = "general" \/ Len(matches) = 0
             THEN CategorizeLoopLastWins(k + 1, combined, acc)
             ELSE CategorizeLoopLastWins(k + 1, combined,
                    [best_category |-> IF better THEN category ELSE acc.best_category,
                     max_matches |-> IF better THEN Len(matches) ELSE acc.max_matches,
                     tags |-> acc.tags \o Take(matches, TagsPerCategory)])

RECURSIVE CategorizeLoop(_, _, _)
\* The for loop of categorize_content from the k-th category on; acc holds
\* best_category, max_matches and tags.
CategorizeLoop(k, combined, acc) ==
    IF k > Len(CATEGORY_KEYWORDS) THEN acc
    ELSE LET category == CATEGORY_KEYWORDS[k].category
             matches == Matches(CATEGORY_KEYWORDS[k].keywords, combined)
             better == Len(matches) > acc.max_matches
         IN  IF category = "general" \/ Len(matches) = 0
             THEN CategorizeLoop(k + 1, combined, acc)
             ELSE CategorizeLoop(k + 1, combined,
                    [best_category |-> IF better THEN category ELSE acc.best_category,
                     max_matches |-> IF better THEN Len(matches) ELSE acc.max_matches,
                     tags |-> acc.tags \o Take(matches, TagsPerCategory)])

\* categorize_content(title, text): the category and the tags, list(set(tags))
\* being a list in no particular order, kept as the set
categorize_content(title, text) ==
    LET combined == Lower(title \o " " \o Prefix(text, TextPrefixLen))
        acc == CategorizeLoop(1, combined,
                  [best_category |-> "general", max_matches |-> 0, tags |-> << >>])
    IN  [category |-> acc.best_category, tags |-> SeqToSet(acc.tags)]

\* -------------------------------------------------------------- compress.py
\* The characters of the texts of the model: printable ASCII (without the
\* double quote, the backslash and the backquote) and two characters outside ASCII.
AsciiLow == " !"
AsciiMid == "#$%&'()*+,-./0123456789:;<=>?@ABCDEFGHIJKLMNOPQRSTUVWXYZ["
AsciiHigh == "]^_"
AsciiLower == "abcdefghijklmnopqrstuvwxyz{|}~"

\* ord(c): the code point of each character
Ord ==
    [c \in {SubSeq(AsciiLow, i, i) : i \in 1..Len(AsciiLow)} |->
        31 + (CHOOSE i \in 1..Len(AsciiLow) : SubSeq(AsciiLow, i, i) = c)]
    @@ [c \in {SubSeq(AsciiMid, i, i) : i \in 1..Len(AsciiMid)} |->
        34 + (CHOOSE i \in 1..Len(AsciiMid) : SubSeq(AsciiMid, i, i) = c)]
    @@ [c \in {SubSeq(AsciiHigh, i, i) : i \in 1..Len(AsciiHigh)} |->
        92 + (CHOOSE i \in 1..Len(AsciiHigh) : SubSeq(AsciiHigh, i, i) = c)]
    @@ [c \in {SubSeq(AsciiLower, i, i) : i \in 1..Len(AsciiLower)} |->
        96 + (CHOOSE i \in 1..Len(AsciiLower) : SubSeq(AsciiLower, i, i) = c)]
    @@ [c \in {"é"} |-> 233]
    @@ [c \in {"€"} |-> 8364]

\* chr(n) for the code points of the model's characters
Chr == [n \in {Ord[c] : c \in DOMAIN Ord} |-> CHOOSE c \in DOMAIN Ord : Ord[c] = n]

\* the UTF-8 bytes of one code point
Utf8Char(cp) ==
    IF cp < 128 THEN <<cp>>
    ELSE IF cp < 2048 THEN <<192 + (cp \div 64), 128 + (cp % 64)>>
    ELSE IF cp < 65536
         THEN <<224 + (cp \div 4096), 128 + ((cp \div 64) % 64), 128 + (cp % 64)>>
    ELSE <<240 + (cp \div 262144), 128 + ((cp \div 4096) % 64),
           128 + ((cp \div 64) % 64), 128 + (cp % 64)>>

RECURSIVE utf8_encode(_)
\* text.encode('utf-8'): the bytes of a text (by halves, which keeps the
\* recursion shallow)
utf8_encode(text) ==
    IF Len(text) = 0 THEN << >>
    ELSE IF Len(text) = 1 THEN Utf8Char(Ord[text])
    ELSE LET h == Len(text) \div 2
         IN  utf8_encode(SubSeq(text, 1, h)) \o utf8_encode(SubSeq(text, h + 1, Len(text)))

\* the number of bytes the lead byte b announces, 0 for a byte that cannot lead
Utf8Len(b) ==
    IF b < 128 THEN 1
    ELSE IF b >= 192 /\ b < 224 THEN 2
    ELSE IF b >= 224 /\ b < 240 THEN 3
    ELSE IF b >= 240 /\ b < 248 THEN 4
    ELSE 0

IsContinuation(b) == b >= 128 /\ b < 192

\* the code point of the character that starts at byte i
Utf8CodePoint(bytes, i) ==
    LET b == bytes[i]
    IN  CASE Utf8Len(b) = 1 -> b
          [] Utf8Len(b) = 2 -> ((b - 192) * 64) + (bytes[i + 1] - 128)
          [] Utf8Len(b) = 3 -> ((b - 224) * 4096) + ((bytes[i + 1] - 128) * 64)
                                  + (bytes[i + 2] - 128)
          [] OTHER -> ((b - 240) * 262144) + ((bytes[i + 1] - 128) * 4096)
                         + ((bytes[i + 2] - 128) * 64) + (bytes[i + 3] - 128)

RECURSIVE JoinChars(_, _)
\* ''.join of the characters that start at the positions leads (by halves)
JoinChars(bytes, leads) ==
    IF Len(leads) = 0 THEN ""
    ELSE IF Len(leads) = 1 THEN Chr[Utf8CodePoint(bytes, leads[1])]
    ELSE LET h == Len(leads) \div 2
         IN  JoinChars(bytes, SubSeq(leads, 1, h))
                \o JoinChars(bytes, SubSeq(leads, h + 1, Len(leads)))

\* bytes.decode('utf-8'): the text, or UnicodeDecodeError for bytes that are
\* not the UTF-8 form of a text of the model's characters
utf8_decode(bytes) ==
    LET n == Len(bytes)
        leads == SelectSeq([i \in 1..n |-> i], LAMBDA i : ~IsContinuation(bytes[i]))
        wellFormed ==
            /\ \A k \in 1..Len(leads) :
                  LET i == leads[k]
                      l == Utf8Len(bytes[i])
                  IN  /\ l > 0
                      /\ i + l - 1 <= n
                      /\ \A j \in (i + 1)..(i + l - 1) : IsContinuation(bytes[j])
                      /\ IF k < Len(leads) THEN leads[k + 1] = i + l ELSE i + l - 1 = n
            /\ (n > 0 => Len(leads) > 0 /\ leads[1] = 1)
    IN  IF wellFormed /\ \A k \in 1..Len(leads) : Utf8CodePoint(bytes, leads[k]) \in DOMAIN Chr
        THEN [raised |-> None, text |-> JoinChars(bytes, leads)]
        ELSE [raised |-> "UnicodeDecodeError"]

\* the four bytes of n, least significant first
LittleEndian4(n) ==
    <<n % 256, (n \div 256) % 256, (n \div 65536) % 256, (n \div 16777216) % 256>>

LZ4_MAGIC == <<4, 34, 77, 24>>
LZ4_ENDMARK == <<0, 0, 0, 0>>

\* lz4.frame.compress(bytes): the frame as a container, which is all that
\* compress.py sees of it: the magic number, one block with its size, the
\* end mark.  The block is kept as stored; how the library packs it is not
\* modelled.
lz4_frame_compress(bytes) ==
    LZ4_MAGIC \o LittleEndian4(Len(bytes)) \o bytes \o LZ4_ENDMARK

Invalid == <<-1>>

\* lz4.frame.decompress(frame): the bytes of the block, or Invalid (the
\* library raises) for bytes that are not a frame
lz4_frame_decompress(frame) ==
    LET n == Len(frame) - 12
    IN  IF /\ n >= 0
           /\ SubSeq(frame, 1, 4) = LZ4_MAGIC
           /\ SubSeq(frame, 5, 8) = LittleEndian4(n)
           /\ SubSeq(frame, Len(frame) - 3, Len(frame)) = LZ4_ENDMARK
        THEN SubSeq(frame, 9, 8 + n)
        ELSE Invalid

B64Alphabet == "ABCDEFGHIJKLMNOPQRSTUVWXYZabcdefghijklmnopqrstuvwxyz0123456789+/"

\* the ASCII code of the k-th character (0-based) of the base64 alphabet
B64Code == [k \in 0..63 |-> Ord[SubSeq(B64Alphabet, k + 1, k + 1)]]

\* the value of the base64 character with ASCII code b
B64Value == [b \in {B64Code[k] : k \in 0..63} |-> CHOOSE k \in 0..63 : B64Code[k] = b]

B64Pad == Ord["="]

\* base64.b64encode(bytes): groups of three bytes as four characters of the
\* alphabet, the last group padded with "="
b64encode(bytes) ==
    LET n == Len(bytes)
        at(i) == IF i <= n THEN bytes[i] ELSE 0
    IN  [k \in 1..(4 * ((n + 2) \div 3)) |->
            LET g == (k - 1) \div 4
                j == (k - 1) % 4
                v == (at(3 * g + 1) * 65536) + (at(3 * g + 2) * 256) + at(3 * g + 3)
            IN  IF (j = 2 /\ 3 * g + 2 > n) \/ (j = 3 /\ 3 * g + 3 > n)
                THEN B64Pad
                ELSE B64Code[CASE j = 0 -> v \div 262144
                               [] j = 1 -> (v \div 4096) % 64
                               [] j = 2 -> (v \div 64) % 64
                               [] OTHER -> v % 64]]

\* base64.b64decode(bytes): the bytes the groups of four characters stand
\* for, or Invalid (binascii.Error) for a length or a padding that is wrong
\* or a character outside the alphabet
b64decode(chars) ==
    LET n == Len(chars)
        pad == IF n > 0 /\ chars[n] = B64Pad
               THEN (IF n > 1 /\ chars[n - 1] = B64Pad THEN 2 ELSE 1)
               ELSE 0
        val(i) == IF chars[i] = B64Pad THEN 0 ELSE B64Value[chars[i]]
    IN  IF \/ n % 4 # 0
           \/ \E i \in 1..(n - pad) : chars[i] \notin DOMAIN B64Value
        THEN Invalid
        ELSE [k \in 1..((3 * (n \div 4)) - pad) |->
                LET g == (k - 1) \div 3
                    j == (k - 1) % 3
                    v == (val(4 * g + 1) * 262144) + (val(4 * g + 2) * 4096)
                           + (val(4 * g + 3) * 64) + val(4 * g + 4)
                IN  CASE j = 0 -> v \div 65536
                      [] j = 1 -> (v \div 256) % 256
                      [] OTHER -> v % 256]

\* compress_text(text): "" for an empty text, else the base64 text of the
\* LZ4 frame of its UTF-8 bytes
compress_text(text) ==
    IF text = "" THEN ""
    ELSE utf8_decode(b64encode(lz4_frame_compress(utf8_encode(text)))).text

\* a decoding that takes the stored text for the frame itself
decompress_text_no_b64(compressed) ==
    IF compressed = "" THEN [raised |-> None, text |-> ""]
    ELSE LET decompressed == lz4_frame_decompress(utf8_encode(compressed))
         IN  IF decompressed = Invalid THEN [raised |-> "RuntimeError"]
             ELSE utf8_decode(decompressed)

\* decompress_text(compressed): "" for an empty value, else the text whose
\* UTF-8 bytes are in the LZ4 frame the base64 text stands for; the
\* exception when a library call raises
decompress_text(compressed) ==
    IF compressed = "" THEN [raised |-> None, text |-> ""]
    ELSE LET decoded == b64decode(utf8_encode(compressed))
         IN  IF decoded = Invalid THEN [raised |-> "binascii.Error"]
             ELSE LET decompressed == lz4_frame_decompress(decoded)
                  IN  IF decompressed = Invalid THEN [raised |-> "RuntimeError"]
                      ELSE utf8_decode(decompressed)

\* the summary with >= in place of >
SummaryFrom200(text) ==
    IF Len(text) >= SummaryLen THEN SubSeq(text, 1, SummaryLen) \o "..." ELSE text

\* summary = item['text'][:200] + "..." if len(item['text']) > 200 else item['text']
Summary(text) ==
    IF Len(text) > SummaryLen THEN SubSeq(text, 1, SummaryLen) \o "..." ELSE text

\* ------------------------------------------------------------------ inputs
\* config['targets'] of the region file: target-1 and target-2 carry the same
\* display name with different slug, category, metadata and url; target-1
\* omits 'source' and 'metadata'; target-4 has a url of another site and
\* target-5 an adapter that is not registered.
CONFIG_TARGETS == <<
    [id |-> "target-1", name |-> "Target A", slug |-> "target-a",
     category |-> "blogs", url |-> "https://example.com/a/"],
    [id |-> "target-2", name |-> "Target A", slug |-> "target-a-v2",
     category |-> "press", metadata |-> {<<"lang", "en">>},
     url |-> "https://example.com/a2", source |-> "example"],
    [id |-> "target-3", name |-> "Target B", slug |-> "target-b",
     category |-> "blogs", metadata |-> {},
     url |-> "https://example.com/b", source |-> "example"],
    [id |-> "target-4", name |-> "Target B", slug |-> "target-b",
     category |-> "blogs", metadata |-> {},
     url |-> "https://other.org/b", source |-> "example"],
    [id |-> "target-5", name |-> "Target A", slug |-> "target-a",
     category |-> "blogs", metadata |-> {},
     url |-> "https://example.com/a", source |-> "mysite"] >>

\* the target ids a caller passes: those of the config and one that is not
TargetIds == {CONFIG_TARGETS[i].id : i \in DOMAIN CONFIG_TARGETS} \cup {"target-x"}

Text1 == "Press release: the latest product update is out now for everyone."
Filler == "This guide is the reference manual of the service. "
Text2 == Filler \o Filler \o Filler \o Filler \o "See the FAQ."
TextShort == "Too short to keep."

\* what one matched page element yields: an optional title, the body text,
\* an optional link; a broken element raises while it is read
ElPress == [title |-> " Press Release ", text |-> Text1, href |-> "/news/1"]
ElGuide == [text |-> Text2, href |-> "https://example.com/docs/guide"]
ElNote == [title |-> "Note", text |-> TextShort]
ElBroken == [broken |-> TRUE]

\* page.query_selector_all(...): the elements of the page as loaded by one
\* call of extract_items
Pages == {
    << >>,
    <<ElNote, ElBroken>>,
    <<ElPress, ElGuide>>,
    <<ElGuide>> }

\* ------------------------------------------------------------- adapters
\* ADAPTERS: the registered source identifiers
ADAPTERS == {"example"}

\* a lookup that falls back to the example adapter for an unknown source
get_adapter_default(source) ==
    [raised |-> None, adapter |-> IF source \in ADAPTERS THEN source ELSE "example"]

\* get_adapter(source): the adapter, or ValueError for an unknown source
get_adapter(source) ==
    IF source \notin ADAPTERS THEN [raised |-> "ValueError"]
    ELSE [raised |-> None, adapter |-> source]

\* a check of the URL's scheme alone
validate_url_scheme(url) == Contains("http", url)

\* ExampleAdapter.validate_url(url)
validate_url(url) == Contains("example.com", url)

\* the body of the for loop of ExampleAdapter.extract_items for element i
\* (0-based): the items it appends
ExtractElement(i, element, url) ==
    IF "broken" \in DOMAIN element THEN << >>
    ELSE LET title == IF "title" \in DOMAIN element
                      THEN Strip(element.title)
                      ELSE "Item " \o ToString(i + 1)
             text == Strip(element.text)
             item_url == IF "href" \in DOMAIN element THEN element.href ELSE url
         IN  IF text # "" /\ Len(text) > MinTextLen
             THEN << [number |-> "ITEM-" \o ToString(i + 1),
                      title |-> title,
                      text |-> text,
                      url |-> IF StartsWith(item_url, "http") THEN item_url
                              ELSE RStrip(url, "/") \o "/" \o LStrip(item_url, "/")] >>
             ELSE << >>

RECURSIVE ExtractLoop(_, _, _)
\* for i, element in enumerate(elements), from the k-th element (1-based) on
ExtractLoop(k, elements, url) ==
    IF k > Len(elements) THEN << >>
    ELSE ExtractElement(k - 1, elements[k], url) \o ExtractLoop(k + 1, elements, url)

\* ExampleAdapter.extract_items(url, target_config) under one outcome of the
\* browser: "launch_error" (the browser or page cannot be created, outside
\* the try), "page_error" (loading or querying fails inside the try: logged,
\* the items gathered so far are returned) or a loaded page
extract_items(url, outcome) ==
    IF outcome.kind = "launch_error" THEN [raised |-> "Error"]
    ELSE IF outcome.kind = "page_error" THEN [raised |-> None, items |-> << >>]
    ELSE [raised |-> None, items |-> ExtractLoop(1, outcome.elements, url)]

BrowserOutcomes ==
    {[kind |-> "launch_error"], [kind |-> "page_error"]}
        \cup {[kind |-> "loaded", elements |-> p] : p \in Pages}

\* --------------------------------------------------------------- core/db.py
GenId == "uuid-" \o ToString(nextId)

\* SELECT id FROM "Source" WHERE name = %s ... fetchone() is not None
source_exists(name) == \E s \in Source : s.name = name

\* get_source_id(name): result[0] if result else None
get_source_id(name) ==
    IF \E s \in Source : s.name = name
    THEN (CHOOSE s \in Source : s.name = name).id
    ELSE None

\* SELECT COUNT(*) FROM "Item" WHERE "sourceId" = %s
get_item_count(source_id) == Cardinality({i \in Item : i.sourceId = source_id})

\* a conflict clause that refreshes every column from the new values
SourceOnConflictOverwrite(s, slug, category, metadata, source_url, adapter) ==
    [s EXCEPT !.slug = slug, !.category = category, !.metadata = metadata,
              !.sourceUrl = source_url, !.adapter = adapter,
              !.lastScraped = now, !.updatedAt = now]

\* ON CONFLICT (name) DO UPDATE SET "lastScraped" = NOW(), "updatedAt" = NOW()
SourceOnConflict(s, slug, category, metadata, source_url, adapter) ==
    [s EXCEPT !.lastScraped = now, !.updatedAt = now]

\* the INSERT without its conflict clause: always a new row
insert_source_append(name, slug, category, metadata, source_url, adapter) ==
    [rows |-> Source \cup {[id |-> GenId, createdAt |-> now, updatedAt |-> now,
                              name |-> name, slug |-> slug, category |-> category,
                              metadata |-> metadata, sourceUrl |-> source_url,
                              adapter |-> adapter, lastScraped |-> now]},
     id |-> GenId,
     nextId |-> nextId + 1]

\* an upsert that returns a newly generated id in place of the row's
insert_source_new_id(name, slug, category, metadata, source_url, adapter) ==
    IF \E s \in Source : s.name = name
    THEN LET old == CHOOSE s \in Source : s.name = name
         IN  [rows |-> (Source \ {old})
                        \cup {SourceOnConflict(old, slug, category, metadata, source_url, adapter)},
              id |-> GenId,
              nextId |-> nextId + 1]
    ELSE [rows |-> Source \cup {[id |-> GenId, createdAt |-> now, updatedAt |-> now,
                                  name |-> name, slug |-> slug, category |-> category,
                                  metadata |-> metadata, sourceUrl |-> source_url,
                                  adapter |-> adapter, lastScraped |-> now]},
          id |-> GenId,
          nextId |-> nextId + 1]

\* insert_source(...): the table after the statement commits, the id it
\* returns and the id generator after it
insert_source(name, slug, category, metadata, source_url, adapter) ==
    IF \E s \in Source : s.name = name
    THEN LET old == CHOOSE s \in Source : s.name = name
         IN  [rows |-> (Source \ {old})
                        \cup {SourceOnConflict(old, slug, category, metadata, source_url, adapter)},
              id |-> old.id,
              nextId |-> nextId]
    ELSE [rows |-> Source \cup {[id |-> GenId, createdAt |-> now, updatedAt |-> now,
                                  name |-> name, slug |-> slug, category |-> category,
                                  metadata |-> metadata, sourceUrl |-> source_url,
                                  adapter |-> adapter, lastScraped |-> now]},
          id |-> GenId,
          nextId |-> nextId + 1]

\* a conflict clause that keeps the stored row (DO NOTHING)
ItemOnConflictKeep(i, title, category, summary, full_text_compressed, tags, source_url, metadata) ==
    i

\* a conflict clause that also takes the url of the new values
ItemOnConflictAll(i, title, category, summary, full_text_compressed, tags, source_url, metadata) ==
    [i EXCEPT !.title = title, !.category = category, !.summary = summary,
              !.tags = tags, !.fullText = full_text_compressed,
              !.sourceUrl = source_url, !.metadata = metadata, !.scrapedAt = now]

\* a conflict clause that refreshes the timestamp and keeps the first values
ItemOnConflictTouch(i, title, category, summary, full_text_compressed, tags, source_url, metadata) ==
    [i EXCEPT !.scrapedAt = now]

\* ON CONFLICT ("sourceId", number) DO UPDATE SET title = EXCLUDED.title, ...
ItemOnConflict(i, title, category, summary, full_text_compressed, tags, source_url, metadata) ==
    [i EXCEPT !.title = title, !.category = category, !.summary = summary,
              !.tags = tags, !.fullText = full_text_compressed,
              !.metadata = metadata, !.scrapedAt = now]

\* the INSERT without its conflict clause: always a new row
insert_item_append(source_id, number, title, category, summary, full_text_compressed, tags, source_url, adapter) ==
    [rows |-> Item \cup {[id |-> GenId, sourceId |-> source_id,
                           number |-> number, title |-> title,
                           category |-> category, summary |-> summary,
                           tags |-> tags, fullText |-> full_text_compressed,
                           sourceUrl |-> source_url,
                           metadata |-> {<<"adapter", adapter>>},
                           scrapedAt |-> now]},
     nextId |-> nextId + 1]

\* an upsert that first deletes the other rows of the Source
insert_item_replace(source_id, number, title, category, summary, full_text_compressed, tags, source_url, adapter) ==
    [rows |-> {i \in Item : i.sourceId # source_id}
                \cup {[id |-> GenId, sourceId |-> source_id,
                        number |-> number, title |-> title,
                        category |-> category, summary |-> summary,
                        tags |-> tags, fullText |-> full_text_compressed,
                        sourceUrl |-> source_url,
                        metadata |-> {<<"adapter", adapter>>},
                        scrapedAt |-> now]},
     nextId |-> nextId + 1]

\* insert_item(...): the table after the statement commits and the id
\* generator after it
insert_item(source_id, number, title, category, summary, full_text_compressed, tags, source_url, adapter) ==
    LET metadata == {<<"adapter", adapter>>}
    IN  IF \E i \in Item : i.sourceId = source_id /\ i.number = number
        THEN LET old == CHOOSE i \in Item : i.sourceId = source_id /\ i.number = number
             IN  [rows |-> (Item \ {old})
                            \cup {ItemOnConflict(old, title, category, summary,
                                                 full_text_compressed, tags,
                                                 source_url, metadata)},
                  nextId |-> nextId]
        ELSE [rows |-> Item \cup {[id |-> GenId, sourceId |-> source_id,
                                   number |-> number, title |-> title,
                                   category |-> category, summary |-> summary,
                                   tags |-> tags, fullText |-> full_text_compressed,
                                   sourceUrl |-> source_url, metadata |-> metadata,
                                   scrapedAt |-> now]},
              nextId |-> nextId + 1]

\* every item a page of the model can yield for a configured target
ItemUniverse ==
    UNION {SeqToSet(ExtractLoop(1, p, CONFIG_TARGETS[t].url)) :
             p \in Pages, t \in DOMAIN CONFIG_TARGETS}

\* categorize_content, the summary and compress_text of each item of the
\* model, evaluated once
Processed ==
    [item \in ItemUniverse |->
        [cat |-> categorize_content(item.title, item.text),
         summary |-> Summary(item.text),
         compressed_text |-> compress_text(item.text)]]

\* ------------------------------------------------------------------ main.py
\* get_target_config(target_id): the first target of the config with that
\* id, or ValueError
get_target_config(target_id) ==
    LET found == {i \in DOMAIN CONFIG_TARGETS : CONFIG_TARGETS[i].id = target_id}
    IN  IF found = {} THEN [raised |-> "ValueError"]
        ELSE [raised |-> None,
              target |-> CONFIG_TARGETS[CHOOSE i \in found : \A j \in found : i <= j]]

\* target.get('metadata', {})
TargetMetadata(target) ==
    IF "metadata" \in DOMAIN target THEN target.metadata ELSE {}

\* target.get('source', 'example')
AdapterName(target) ==
    IF "source" \in DOMAIN target THEN target.source ELSE "example"

NoResult == [status |-> "pending"]

\* no function of core/ has been called on its own
NotApplied == [fn |-> None]

\* a run slot before scrape_target is called
IdleRun ==
    [pc |-> "idle", target |-> [id |-> None], force |-> FALSE, items |-> << >>,
     idx |-> 1, source_id |-> None, existing_id |-> None,
     success_count |-> 0, error_count |-> 0, result |-> NoResult,
     calls |-> {}, extraction |-> None]

Init ==
    /\ Source = {}
    /\ Item = {}
    /\ now = 0
    /\ nextId = 1
    /\ started = 0
    /\ run = [r \in Runs |-> IdleRun]
    /\ applied = NotApplied

\* scrape_target(target_id, force) is called: the target's config is loaded
Start(r) ==
    /\ run[r].pc \in {"idle", "done", "raised"}
    /\ started < MaxRuns
    /\ started' = started + 1
    /\ \E target_id \in TargetIds, force \in BOOLEAN :
          LET got == get_target_config(target_id)
          IN  run' = [run EXCEPT ![r] =
                 IF got.raised # None
                 THEN [IdleRun EXCEPT !.pc = "raised", !.force = force]
                 ELSE [IdleRun EXCEPT !.pc = "skip_check", !.force = force,
                                      !.target = got.target]]
    /\ UNCHANGED <<Source, Item, now, nextId, applied>>

\* the skip condition with the force flag inverted
ShouldSkipInverted(force, target_name) == force /\ source_exists(target_name)

\* a skip condition that also asks for a stored item of the Source
ShouldSkipIfItems(force, target_name) ==
    /\ ~force
    /\ source_exists(target_name)
    /\ get_item_count(get_source_id(target_name)) > 0

\* if not force and source_exists(target_name)
ShouldSkip(force, target_name) == ~force /\ source_exists(target_name)

\* the skip-check: source_exists is queried unless the run is forced
SkipCheck(r) ==
    /\ run[r].pc = "skip_check"
    /\ run' = [run EXCEPT
          ![r].calls = @ \cup (IF run[r].force THEN {} ELSE {"source_exists"}),
          ![r].pc = IF ShouldSkip(run[r].force, run[r].target.name)
                    THEN "get_source_id" ELSE "get_adapter"]
    /\ UNCHANGED <<Source, Item, now, nextId, started, applied>>

\* existing_id = get_source_id(target_name)
GetSourceId(r) ==
    /\ run[r].pc = "get_source_id"
    /\ run' = [run EXCEPT ![r].calls = @ \cup {"get_source_id"},
                          ![r].existing_id = get_source_id(run[r].target.name),
                          ![r].pc = "get_item_count"]
    /\ UNCHANGED <<Source, Item, now, nextId, started, applied>>

\* existing_count = get_item_count(existing_id); return skipped
GetItemCount(r) ==
    /\ run[r].pc = "get_item_count"
    /\ run' = [run EXCEPT ![r].calls = @ \cup {"get_item_count"},
                          ![r].result = [status |-> "skipped",
                                         target |-> run[r].target.name,
                                         items |-> get_item_count(run[r].existing_id)],
                          ![r].pc = "done"]
    /\ UNCHANGED <<Source, Item, now, nextId, started, applied>>

\* adapter = get_adapter(adapter_name), ValueError caught into the result
GetAdapter(r) ==
    /\ run[r].pc = "get_adapter"
    /\ LET got == get_adapter(AdapterName(run[r].target))
       IN  run' = [run EXCEPT
              ![r].calls = @ \cup {"get_adapter"},
              ![r].result = IF got.raised # None
                            THEN [status |-> "error", target |-> run[r].target.name,
                                  error |-> got.raised]
                            ELSE @,
              ![r].pc = IF got.raised # None THEN "done" ELSE "validate_url"]
    /\ UNCHANGED <<Source, Item, now, nextId, started, applied>>

\* if not adapter.validate_url(source_url): return error
ValidateUrl(r) ==
    /\ run[r].pc = "validate_url"
    /\ LET ok == validate_url(run[r].target.url)
       IN  run' = [run EXCEPT
              ![r].calls = @ \cup {"validate_url"},
              ![r].result = IF ok THEN @
                            ELSE [status |-> "error", target |-> run[r].target.name,
                                  error |-> "URL validation failed"],
              ![r].pc = IF ok THEN "extract_items" ELSE "done"]
    /\ UNCHANGED <<Source, Item, now, nextId, started, applied>>

\* scrape_target without its emptiness check
AfterExtractNoCheck(items) == "insert_source"

\* where scrape_target goes once extract_items has returned items
AfterExtract(items) == IF items = << >> THEN "return_empty" ELSE "insert_source"

\* items = adapter.extract_items(source_url, target); if not items: return empty
ExtractItems(r) ==
    /\ run[r].pc = "extract_items"
    /\ \E outcome \in BrowserOutcomes :
          LET got == extract_items(run[r].target.url, outcome)
          IN  run' = [run EXCEPT ![r] =
                 IF got.raised # None
                 THEN [@ EXCEPT !.calls = @ \cup {"extract_items"},
                                !.extraction = "raised",
                                !.pc = "raised"]
                 ELSE [@ EXCEPT !.calls = @ \cup {"extract_items"},
                                !.extraction = IF outcome.kind = "page_error"
                                               THEN "swallowed" ELSE "returned",
                                !.items = got.items,
                                !.result = IF AfterExtract(got.items) = "return_empty"
                                           THEN [status |-> "empty",
                                                 target |-> run[r].target.name,
                                                 items |-> 0]
                                           ELSE @,
                                !.pc = IF AfterExtract(got.items) = "return_empty"
                                       THEN "done" ELSE "insert_source"]]
    /\ UNCHANGED <<Source, Item, now, nextId, started, applied>>

\* source_id = insert_source(name=target_name, ...), in its own transaction
InsertSource(r) ==
    /\ run[r].pc = "insert_source"
    /\ LET t == run[r].target
           res == insert_source(t.name, t.slug, t.category, TargetMetadata(t),
                                t.url, AdapterName(t))
       IN  /\ Source' = res.rows
           /\ nextId' = res.nextId
           /\ now' = now + 1
           /\ run' = [run EXCEPT ![r].calls = @ \cup {"insert_source"},
                                 ![r].source_id = res.id,
                                 ![r].idx = 1,
                                 ![r].pc = "item_loop"]
    /\ UNCHANGED <<Item, started, applied>>

\* an item loop without its except branch: the exception leaves scrape_target
OnItemErrorAbort(rr) ==
    [rr EXCEPT !.pc = "raised"]

\* an except branch that also drops the item after the failed one
OnItemErrorSkipNext(rr) ==
    [rr EXCEPT !.error_count = @ + 1, !.idx = @ + 2]

\* the except branch of the item loop: count the error, go on with the next item
OnItemError(rr) ==
    [rr EXCEPT !.error_count = @ + 1, !.idx = @ + 1]

\* one iteration of the item loop in which nothing raises: categorize,
\* summarise, compress, insert_item commits
ProcessItem(r) ==
    /\ run[r].pc = "item_loop"
    /\ run[r].idx <= Len(run[r].items)
    /\ LET item == run[r].items[run[r].idx]
           cat == Processed[item].cat
           res == insert_item(run[r].source_id, item.number, item.title,
                              cat.category, Processed[item].summary,
                              Processed[item].compressed_text, cat.tags, item.url,
                              AdapterName(run[r].target))
       IN  /\ Item' = res.rows
           /\ nextId' = res.nextId
           /\ now' = now + 1
           /\ run' = [run EXCEPT ![r].calls = @ \cup {"insert_item"},
                                 ![r].success_count = @ + 1,
                                 ![r].idx = @ + 1]
    /\ UNCHANGED <<Source, started, applied>>

\* one iteration of the item loop in which encoding or insert_item raises
\* before its commit: the exception is caught in the loop
ProcessItemFails(r) ==
    /\ run[r].pc = "item_loop"
    /\ run[r].idx <= Len(run[r].items)
    /\ run' = [run EXCEPT ![r] = OnItemError(run[r])]
    /\ UNCHANGED <<Source, Item, now, nextId, started, applied>>

\* a result that reports the items extracted in place of the items stored
ReturnAttempted(r) ==
    /\ run[r].pc = "item_loop"
    /\ run[r].idx > Len(run[r].items)
    /\ run' = [run EXCEPT ![r].result = [status |-> "success",
                                         target |-> run[r].target.name,
                                         items |-> Len(run[r].items),
                                         errors |-> run[r].error_count,
                                         adapter |-> AdapterName(run[r].target)],
                          ![r].pc = "done"]
    /\ UNCHANGED <<Source, Item, now, nextId, started, applied>>

\* after the loop: return the success result
Return(r) ==
    /\ run[r].pc = "item_loop"
    /\ run[r].idx > Len(run[r].items)
    /\ run' = [run EXCEPT ![r].result = [status |-> "success",
                                         target |-> run[r].target.name,
                                         items |-> run[r].success_count,
                                         errors |-> run[r].error_count,
                                         adapter |-> AdapterName(run[r].target)],
                          ![r].pc = "done"]
    /\ UNCHANGED <<Source, Item, now, nextId, started, applied>>

Next ==
    \/ \E r \in Runs : Start(r)
    \/ \E r \in Runs : SkipCheck(r)
    \/ \E r \in Runs : GetSourceId(r)
    \/ \E r \in Runs : GetItemCount(r)
    \/ \E r \in Runs : GetAdapter(r)
    \/ \E r \in Runs : ValidateUrl(r)
    \/ \E r \in Runs : ExtractItems(r)
    \/ \E r \in Runs : InsertSource(r)
    \/ \E r \in Runs : ProcessItem(r)
    \/ \E r \in Runs : ProcessItemFails(r)
    \/ \E r \in Runs : Return(r)

Spec == Init /\ [][Next]_vars

\* one step of the call of scrape_target that run r is in
RunStep(r) ==
    \/ SkipCheck(r)
    \/ GetSourceId(r)
    \/ GetItemCount(r)
    \/ GetAdapter(r)
    \/ ValidateUrl(r)
    \/ ExtractItems(r)
    \/ InsertSource(r)
    \/ ProcessItem(r)
    \/ ProcessItemFails(r)
    \/ Return(r)

\* scrape_target is straight-line code: a call that has been made goes on to
\* its next statement, the store and the adapter answering each call
FairSpec == Spec /\ \A r \in Runs : WF_vars(RunStep(r))

\* ------------------------------------------- the functions of core/ alone
\* The functions of core/ and the summary expression take no state: they are
\* applied here to arguments drawn from bounded sets, apart from any run.
\* A call leaves nothing behind for the next one, so a behaviour makes one
\* call, followed for compress_text by the decoding of what it returned.

RECURSIVE StringsUpTo(_, _)
\* the strings of at most n characters of alphabet
StringsUpTo(alphabet, n) ==
    IF n = 0 THEN {""}
    ELSE LET shorter == StringsUpTo(alphabet, n - 1)
         IN  shorter \cup {s \o c : s \in shorter, c \in alphabet}

\* the texts handed to compress_text: empty, ASCII and multi-byte content
CodecAlphabet == {"a", "é", "€"}
CodecTexts == StringsUpTo(CodecAlphabet, MaxCodecLen)

\* the texts a summary is built from: every length up to MaxTextLen
LongText == Text2 \o Text2
SummaryTexts == {Prefix(LongText, n) : n \in 0..MaxTextLen}

\* the titles and the phrases the texts handed to categorize_content are
\* made of
Titles == {"", "FAQ"}
Phrases == {"docs guide tutorial manual", "news", "press release", "help",
            "privacy policy", "Pricing PLAN", "nothing here"}

RECURSIVE TextsUpTo(_)
\* the texts of at most n phrases, one space between two phrases
TextsUpTo(n) ==
    IF n = 0 THEN {""}
    ELSE LET shorter == TextsUpTo(n - 1)
         IN  shorter \cup {IF t = "" THEN p ELSE t \o " " \o p :
                             t \in shorter, p \in Phrases}

CategorizeTexts == TextsUpTo(MaxPhrases)

FnInit ==
    /\ Source = {}
    /\ Item = {}
    /\ now = 0
    /\ nextId = 1
    /\ started = 0
    /\ run = [r \in Runs |-> IdleRun]
    /\ applied = NotApplied

\* category, tags = categorize_content(title, text)
Categorize ==
    /\ applied = NotApplied
    /\ \E title \in Titles, text \in CategorizeTexts :
          applied' = [fn |-> "categorize_content", title |-> title, text |-> text,
                      result |-> categorize_content(title, text)]
    /\ UNCHANGED <<Source, Item, now, nextId, started, run>>

\* summary = text[:200] + "..." if len(text) > 200 else text
Summarise ==
    /\ applied = NotApplied
    /\ \E text \in SummaryTexts :
          applied' = [fn |-> "summary", text |-> text, result |-> Summary(text)]
    /\ UNCHANGED <<Source, Item, now, nextId, started, run>>

\* compressed = compress_text(text)
Compress ==
    /\ applied = NotApplied
    /\ \E text \in CodecTexts :
          applied' = [fn |-> "compress_text", text |-> text,
                      result |-> compress_text(text)]
    /\ UNCHANGED <<Source, Item, now, nextId, started, run>>

\* decompress_text(compressed) of the value compress_text has just returned
Decompress ==
    /\ applied.fn = "compress_text"
    /\ applied' = [fn |-> "decompress_text", compressed |-> applied.result,
                   result |-> decompress_text(applied.result),
                   text |-> applied.text]
    /\ UNCHANGED <<Source, Item, now, nextId, started, run>>

FnNext ==
    \/ Categorize
    \/ Summarise
    \/ Compress
    \/ Decompress

FnSpec == FnInit /\ [][FnNext]_vars

\* ------------------------------------------------------------------ claims
SourceRow(name) == CHOOSE s \in Source : s.name = name

\* the step of run r that executes insert_source
InsertSourceStep(r) == run[r].pc = "insert_source" /\ run'[r].pc # "insert_source"

\* the step of run r in which insert_item commits
InsertItemStep(r) ==
    /\ run[r].pc = "item_loop"
    /\ run'[r].pc = "item_loop"
    /\ run'[r].success_count = run[r].success_count + 1

\* C1: the store never holds two Source rows with one name, and every run
\* that has called insert_source holds the id of the one row with its
\* target's name, so all calls with one name return the same id.
C1_OneSourcePerName ==
    /\ \A s1, s2 \in Source : s1.name = s2.name => s1 = s2
    /\ \A r \in Runs :
          "insert_source" \in run[r].calls =>
              \E s \in Source : s.name = run[r].target.name /\ s.id = run[r].source_id

\* two calls of insert_source with one name have been made, from different
\* targets, and returned one id
C1_Witness ==
    /\ "insert_source" \in run["r1"].calls
    /\ "insert_source" \in run["r2"].calls
    /\ run["r1"].target.name = run["r2"].target.name
    /\ run["r1"].target.id # run["r2"].target.id
    /\ run["r1"].source_id = run["r2"].source_id

\* C2: the store never holds two Item rows with one (sourceId, number), a
\* committed insert_item leaves the row of its key with the title, category,
\* summary, tags, fullText and metadata of that call and every other row as
\* it was, and no other step changes the Item table.
C2_ItemUpsert ==
    /\ [](\A i1, i2 \in Item :
            (i1.sourceId = i2.sourceId /\ i1.number = i2.number) => i1 = i2)
    /\ [][ /\ \A r \in Runs :
                InsertItemStep(r) =>
                    LET item == run[r].items[run[r].idx]
                        key(i) == i.sourceId = run[r].source_id /\ i.number = item.number
                    IN  /\ \E i \in Item' :
                              /\ key(i)
                              /\ i.title = item.title
                              /\ i.category = Processed[item].cat.category
                              /\ i.tags = Processed[item].cat.tags
                              /\ i.summary = Processed[item].summary
                              /\ i.fullText = Processed[item].compressed_text
                              /\ i.metadata = {<<"adapter", AdapterName(run[r].target)>>}
                        /\ {i \in Item' : ~key(i)} = {i \in Item : ~key(i)}
           /\ (\A r \in Runs : ~InsertItemStep(r)) => Item' = Item
         ]_vars

\* a row inserted from the press element has been overwritten by an upsert
\* of the guide element under the same number
C2_Witness ==
    \E i \in Item :
        /\ i.number = "ITEM-1"
        /\ i.title = "Item 1"
        /\ i.sourceUrl # "https://example.com/docs/guide"

\* C3: insert_source for a name that has a row changes nothing of that row
\* but lastScraped and updatedAt, which become NOW(), and changes no other
\* row.
C3_SourceConflictFrame ==
    [][\A r \in Runs :
          (InsertSourceStep(r) /\ source_exists(run[r].target.name)) =>
              LET old == SourceRow(run[r].target.name)
              IN  Source' = (Source \ {old})
                       \cup {[old EXCEPT !.lastScraped = now, !.updatedAt = now]}
      ]_vars

\* the row of "Target A", created from target-1, has been refreshed by a run
\* of target-2 at a later time
C3_Witness ==
    \E s \in Source, r \in Runs :
        /\ s.name = "Target A"
        /\ s.slug = "target-a"
        /\ s.updatedAt > s.createdAt
        /\ run[r].target.id = "target-2"
        /\ "insert_source" \in run[r].calls

\* the rows of table Item that belong to the Source row named name
ItemsOfName(name) ==
    {i \in Item : \E s \in Source : s.name = name /\ i.sourceId = s.id}

SkipQueries == {"source_exists", "get_source_id", "get_item_count"}

\* C4: a run that is not forced and finds a Source row with its target's name
\* at the skip-check goes on to the two queries and returns skipped with the
\* number of Item rows of that Source; it has called nothing but the three
\* queries and none of its steps changes the store.
C4_SkipExisting ==
    /\ [](\A r \in Runs :
            (run[r].pc \in {"get_source_id", "get_item_count"}
                \/ run[r].result.status = "skipped") =>
                /\ ~run[r].force
                /\ run[r].calls \subseteq SkipQueries)
    /\ [][\A r \in Runs :
            /\ (/\ run[r].pc = "skip_check"
                /\ run'[r].pc # "skip_check"
                /\ ~run[r].force
                /\ \E s \in Source : s.name = run[r].target.name) =>
                   /\ run'[r].pc = "get_source_id"
                   /\ UNCHANGED <<Source, Item>>
            /\ (run[r].pc = "get_source_id" /\ run'[r].pc # "get_source_id") =>
                   /\ run'[r].pc = "get_item_count"
                   /\ UNCHANGED <<Source, Item>>
            /\ (run[r].pc = "get_item_count" /\ run'[r].pc # "get_item_count") =>
                   /\ run'[r].pc = "done"
                   /\ run'[r].result =
                         [status |-> "skipped", target |-> run[r].target.name,
                          items |-> Cardinality(ItemsOfName(run[r].target.name))]
                   /\ UNCHANGED <<Source, Item>>
         ]_vars

\* a run has been skipped for a Source that has two items
C4_Witness ==
    \E r \in Runs : run[r].result.status = "skipped" /\ run[r].result.items = 2

\* C5: once a run has reached the item loop it never leaves scrape_target by
\* an exception; each iteration counts the item as succeeded, with its row in
\* the store, or as failed, with the store unchanged; the run returns success
\* after the last item with items + errors = N.
C5_PartialFailure ==
    /\ [](\A r \in Runs :
            "insert_source" \in run[r].calls =>
                /\ run[r].pc \in {"item_loop", "done"}
                /\ run[r].success_count + run[r].error_count = run[r].idx - 1
                /\ run[r].idx <= Len(run[r].items) + 1
                /\ run[r].pc = "done" =>
                      /\ run[r].idx = Len(run[r].items) + 1
                      /\ run[r].result.status = "success"
                      /\ run[r].result.items = run[r].success_count
                      /\ run[r].result.errors = run[r].error_count
                      /\ run[r].result.items + run[r].result.errors = Len(run[r].items))
    /\ [][\A r \in Runs :
            (run[r].pc = "item_loop" /\ run'[r].pc = "item_loop" /\ run'[r] # run[r]) =>
                \/ /\ run'[r].success_count = run[r].success_count + 1
                   /\ run'[r].error_count = run[r].error_count
                   /\ \E i \in Item' :
                         /\ i.sourceId = run[r].source_id
                         /\ i.number = run[r].items[run[r].idx].number
                         /\ i.title = run[r].items[run[r].idx].title
                \/ /\ run'[r].error_count = run[r].error_count + 1
                   /\ run'[r].success_count = run[r].success_count
                   /\ UNCHANGED <<Source, Item>>
         ]_vars

\* a run over two items has returned success with one item stored and one failed
C5_Witness ==
    \E r \in Runs :
        /\ run[r].pc = "done"
        /\ Len(run[r].items) = 2
        /\ run[r].result.status = "success"
        /\ run[r].result.items = 1
        /\ run[r].result.errors = 1

\* C6: when extract_items raises, scrape_target returns a result of status
\* error that carries the cause, and nothing has been persisted by the run.
C6_ExtractErrorCaptured ==
    \A r \in Runs :
        run[r].extraction = "raised" =>
            /\ run[r].pc = "done"
            /\ run[r].result.status = "error"
            /\ "error" \in DOMAIN run[r].result
            /\ run[r].calls \cap {"insert_source", "insert_item"} = {}

\* C7: with the store calls of two runs interleaved in any order, no two
\* Source rows share a name, no two Item rows share (sourceId, number), and
\* two runs for one name hold the same Source id once insert_source returned.
C7_NoDuplicateRows ==
    /\ \A s1, s2 \in Source : s1.name = s2.name => s1.id = s2.id /\ s1 = s2
    /\ \A i1, i2 \in Item :
          (i1.sourceId = i2.sourceId /\ i1.number = i2.number) => i1 = i2
    /\ \A r1, r2 \in Runs :
          (/\ "insert_source" \in run[r1].calls
           /\ "insert_source" \in run[r2].calls
           /\ run[r1].target.name = run[r2].target.name) =>
              run[r1].source_id = run[r2].source_id

\* two runs for one name are in their item loops at once and each has
\* committed an upsert of the same number
C7_Witness ==
    /\ run["r1"].pc = "item_loop"
    /\ run["r2"].pc = "item_loop"
    /\ run["r1"].target.name = run["r2"].target.name
    /\ run["r1"].idx = 2 /\ run["r1"].success_count = 1
    /\ run["r2"].idx = 2 /\ run["r2"].success_count = 1
    /\ run["r1"].items[1].number = run["r2"].items[1].number
    /\ run["r1"].items[1].title # run["r2"].items[1].title

StoreWrites == {"insert_source", "insert_item"}

\* C8: a run whose extract_items returned no item has returned the result
\* empty with items 0 and has called neither insert_source nor insert_item;
\* the step that returns it leaves the store unchanged.
C8_EmptyExtraction ==
    /\ [](\A r \in Runs :
            (/\ "extract_items" \in run[r].calls
             /\ run[r].extraction # "raised"
             /\ run[r].items = << >>) =>
                /\ run[r].pc = "done"
                /\ run[r].result = [status |-> "empty",
                                    target |-> run[r].target.name, items |-> 0]
                /\ run[r].calls \cap StoreWrites = {})
    /\ [][\A r \in Runs :
            (run[r].pc = "extract_items" /\ run'[r].pc = "done") =>
                UNCHANGED <<Source, Item>>
         ]_vars

\* a run whose page had no usable element returned empty and no Source row
\* of its name exists
C8_Witness ==
    \E r \in Runs :
        /\ run[r].result.status = "empty"
        /\ run[r].extraction = "returned"
        /\ ~ \E s \in Source : s.name = run[r].target.name

\* the configured targets whose url does not name the example site
ForeignUrlTargets ==
    {CONFIG_TARGETS[t].id : t \in {u \in DOMAIN CONFIG_TARGETS :
                                      ~Contains("example.com", CONFIG_TARGETS[u].url)}}

\* C9: a run whose adapter rejected the target URL has returned an error
\* result and has called neither extract_items nor a store write.
C9_UrlRejected ==
    \A r \in Runs :
        ("validate_url" \in run[r].calls
            /\ run[r].target.id \in ForeignUrlTargets) =>
            /\ run[r].pc = "done"
            /\ run[r].result.status = "error"
            /\ run[r].calls \cap ({"extract_items"} \cup StoreWrites) = {}

\* a forced run of the target whose url is of another site returned an error
\* while a Source row of its name is in the store
C9_Witness ==
    \E r \in Runs :
        /\ run[r].target.id = "target-4"
        /\ ~Contains("example.com", run[r].target.url)
        /\ run[r].result.status = "error"
        /\ run[r].result.error = "URL validation failed"
        /\ \E s \in Source : s.name = run[r].target.name

\* C10: a run whose adapter identifier is not registered has returned an
\* error result from get_adapter and has called no adapter operation and no
\* store write.
C10_UnknownAdapter ==
    \A r \in Runs :
        ("get_adapter" \in run[r].calls
            /\ AdapterName(run[r].target) \notin {"example"}) =>
            /\ run[r].pc = "done"
            /\ run[r].result.status = "error"
            /\ "error" \in DOMAIN run[r].result
            /\ run[r].calls \cap ({"validate_url", "extract_items"} \cup StoreWrites) = {}

\* a forced run with the unregistered adapter returned an error while the
\* Source row of its name is in the store
C10_Witness ==
    \E r \in Runs :
        /\ run[r].target.id = "target-5"
        /\ run[r].force
        /\ run[r].result.status = "error"
        /\ \E s \in Source : s.name = run[r].target.name

\* run q has committed an upsert of Item (source_id, number): it has passed
\* an item of that number and none of its iterations has failed
HasCommitted(q, source_id, number) ==
    /\ "insert_item" \in run[q].calls
    /\ run[q].source_id = source_id
    /\ run[q].error_count = 0
    /\ \E k \in 1..(run[q].idx - 1) : run[q].items[k].number = number

\* C11: when a run commits an upsert of an Item key that another run has
\* already committed, the row of the key then holds the title, category,
\* summary, tags, fullText, metadata and scrapedAt of this later upsert and
\* nothing of the earlier one, and it stays so until the next upsert commits.
C11_LastWriterWins ==
    [][ /\ \A r, q \in Runs :
              (/\ r # q
               /\ InsertItemStep(r)
               /\ HasCommitted(q, run[r].source_id, run[r].items[run[r].idx].number)) =>
                  LET item == run[r].items[run[r].idx]
                      rows == {i \in Item' : /\ i.sourceId = run[r].source_id
                                             /\ i.number = item.number}
                  IN  /\ Cardinality(rows) = 1
                      /\ \A i \in rows :
                            /\ i.title = item.title
                            /\ i.category = Processed[item].cat.category
                            /\ i.summary = Processed[item].summary
                            /\ i.tags = Processed[item].cat.tags
                            /\ i.fullText = Processed[item].compressed_text
                            /\ i.metadata = {<<"adapter", AdapterName(run[r].target)>>}
                            /\ i.scrapedAt = now
        /\ (\A r \in Runs : ~InsertItemStep(r)) => UNCHANGED Item
      ]_vars

\* run r1 has returned success for one item stored, and the row of that item
\* holds the values of the racing run r2, which upserted the same number
\* later from another element
C11_Witness ==
    /\ run["r1"].pc = "done"
    /\ run["r1"].result.status = "success"
    /\ run["r1"].result.items = 1
    /\ Len(run["r1"].items) = 1
    /\ HasCommitted("r2", run["r1"].source_id, run["r1"].items[1].number)
    /\ run["r2"].pc = "item_loop"
    /\ \E i \in Item :
          /\ i.sourceId = run["r1"].source_id
          /\ i.number = run["r1"].items[1].number
          /\ i.title = run["r2"].items[1].title
          /\ i.title # run["r1"].items[1].title
          /\ i.summary # Processed[run["r1"].items[1]].summary

\* the position of each step in the text of scrape_target
StepRank ==
    [pc \in {"skip_check", "get_source_id", "get_item_count", "get_adapter",
             "validate_url", "extract_items", "insert_source", "item_loop",
             "done", "raised"} |->
        CASE pc = "skip_check" -> 1
          [] pc = "get_source_id" -> 2
          [] pc = "get_item_count" -> 3
          [] pc = "get_adapter" -> 4
          [] pc = "validate_url" -> 5
          [] pc = "extract_items" -> 6
          [] pc = "insert_source" -> 7
          [] pc = "item_loop" -> 8
          [] OTHER -> 9]

\* run r is inside a call of scrape_target whose target has been resolved
InCall(r) == run[r].pc \notin {"idle", "done", "raised"}

TerminalStatuses == {"skipped", "empty", "error", "success"}

\* C12: a call of scrape_target whose target has been resolved never leaves
\* by an exception and returns a result whose status is one of skipped,
\* empty, error and success; its steps are taken in the order of the text,
\* the item loop going from one item to the next, never back; and every
\* such call eventually returns.
C12_LinearTermination ==
    /\ [](\A r \in Runs :
            /\ run[r].pc = "raised" => run[r].target.id = None
            /\ run[r].pc = "done" => run[r].result.status \in TerminalStatuses)
    /\ [][\A r \in Runs :
            (InCall(r) /\ run'[r] # run[r]) =>
                /\ StepRank[run'[r].pc] >= StepRank[run[r].pc]
                /\ run'[r].pc = run[r].pc =>
                      run[r].pc = "item_loop" /\ run'[r].idx = run[r].idx + 1
         ]_vars
    /\ \A r \in Runs :
          InCall(r) ~> (run[r].pc = "done" /\ run[r].result.status \in TerminalStatuses)

\* C13: decompress_text applied to what compress_text returned for a text
\* returns that text, without raising; compress_text of the empty text is the
\* empty string and decompress_text of the empty string is the empty text.
C13_RoundTrip ==
    /\ applied.fn = "decompress_text" =>
          applied.result = [raised |-> None, text |-> applied.text]
    /\ (applied.fn = "compress_text" /\ applied.text = "") => applied.result = ""
    /\ (applied.fn = "decompress_text" /\ applied.compressed = "") =>
          applied.result.raised = None /\ applied.result.text = ""

\* a text of one-, two- and three-byte characters has been encoded to another,
\* longer string and decoded
C13_Witness ==
    /\ applied.fn = "decompress_text"
    /\ applied.text = "aé€"
    /\ Len(applied.compressed) > Len(applied.text)
    /\ applied.result.raised = None

\* the string categorize_content searches: title and text, in lower case
SearchString(title, text) == Lower(title \o " " \o Prefix(text, TextPrefixLen))

\* the places of the categories that are not the default one, in the order
\* of their declaration
NonDefault == {k \in DOMAIN CATEGORY_KEYWORDS : CATEGORY_KEYWORDS[k].category # "general"}

\* the number of keywords of the k-th category that occur in combined
MatchCount(k, combined) ==
    Cardinality({kw \in SeqToSet(CATEGORY_KEYWORDS[k].keywords) : Contains(kw, combined)})

\* C14: categorize_content returns a category, other than the default one,
\* that no category exceeds in the number of its keywords found in the title
\* and text, and that every category declared before it falls short of; it
\* returns the default category when no keyword is found.
C14_CategoryByMostMatches ==
    applied.fn = "categorize_content" =>
        LET combined == SearchString(applied.title, applied.text)
        IN  IF \A k \in NonDefault : MatchCount(k, combined) = 0
            THEN applied.result.category = "general"
            ELSE \E k \in NonDefault :
                    /\ applied.result.category = CATEGORY_KEYWORDS[k].category
                    /\ MatchCount(k, combined) > 0
                    /\ \A j \in NonDefault :
                          /\ MatchCount(j, combined) <= MatchCount(k, combined)
                          /\ j < k => MatchCount(j, combined) < MatchCount(k, combined)

\* a text that names two keywords of "legal" and then two of "news", which is
\* declared before "legal", has been categorized as "news"
C14_Witness ==
    /\ applied.fn = "categorize_content"
    /\ applied.title = ""
    /\ applied.text = "privacy policy press release"
    /\ MatchCount(2, "privacy policy press release") = 2
    /\ MatchCount(5, "privacy policy press release") = 2
    /\ applied.result.category = "news"

\* C15: the summary of a text of more than 200 characters is its first 200
\* characters followed by the marker "..."; the summary of a text of 200
\* characters or fewer is the text itself.
C15_SummaryTruncation ==
    applied.fn = "summary" =>
        IF Len(applied.text) > 200
        THEN /\ Len(applied.result) = 203
             /\ \A i \in 1..200 :
                   SubSeq(applied.result, i, i) = SubSeq(applied.text, i, i)
             /\ SubSeq(applied.result, 201, 203) = "..."
        ELSE applied.result = applied.text

\* the summary of a text of 201 characters has been built: 203 characters
\* that end in the marker
C15_Witness ==
    /\ applied.fn = "summary"
    /\ Len(applied.text) = 201
    /\ Len(applied.result) = 203
    /\ applied.result # applied.text

SourceNames == {s.name : s \in Source}

ItemKeys == {<<i.sourceId, i.number>> : i \in Item}

\* C16: no step of any run removes a Source name or an Item key from the
\* store, and the number of Item rows of each Source never decreases.
C16_NeverDeleted ==
    [][ /\ SourceNames \subseteq SourceNames'
        /\ ItemKeys \subseteq ItemKeys'
        /\ \A s \in Source :
              Cardinality({i \in Item' : i.sourceId = s.id})
                 >= Cardinality({i \in Item : i.sourceId = s.id})
      ]_vars

\* a forced run over a page of one item has returned success for a Source
\* that still has the two items of an earlier run
C16_Witness ==
    \E r \in Runs :
        /\ run[r].force
        /\ run[r].pc = "done"
        /\ run[r].result.status = "success"
        /\ run[r].result.items = 1
        /\ Len(run[r].items) = 1
        /\ Cardinality({i \in Item : i.sourceId = run[r].source_id}) = 2

\* the items of run r, by their place in the extracted list, whose extraction
\* has completed: extract_items returns the whole list at once
Extracted(r) == 1..Len(run[r].items)

\* the items of run r whose iteration of the loop (categorize, summary,
\* compress, insert_item) has ended, by a commit or by an exception
Handled(r) == 1..(run[r].idx - 1)

\* one iteration of the item loop of run r
LoopStep(r) ==
    run[r].pc = "item_loop" /\ run'[r].pc = "item_loop" /\ run'[r] # run[r]

\* C17 as stated: an item has been extracted only when classification,
\* encoding and persistence have completed for the item before it.
C17_ItemByItem ==
    \A r \in Runs : \A k \in Extracted(r) : k > 1 => (k - 1) \in Handled(r)

\* C17 as amended: extract_items has returned the whole list before the
\* first item is classified, and the list does not change afterwards; each
\* iteration of the loop then handles exactly the next item of the list and
\* writes no row but that item's; no other step of the run writes an Item.
C17_ExtractThenItemByItem ==
    /\ [](\A r \in Runs :
            (run[r].pc = "item_loop" \/ Handled(r) # {}) =>
                /\ run[r].extraction \in {"returned"}
                /\ Handled(r) \subseteq Extracted(r))
    /\ [][\A r \in Runs :
            /\ LoopStep(r) =>
                  /\ run'[r].items = run[r].items
                  /\ Handled(r)' = Handled(r) \cup {run[r].idx}
                  /\ \A i \in Item' \ Item :
                        /\ i.sourceId = run[r].source_id
                        /\ i.number = run[r].items[run[r].idx].number
            /\ (run'[r] # run[r] /\ ~LoopStep(r)) => UNCHANGED Item
            /\ run'[r].items # run[r].items =>
                  run[r].pc \in {"extract_items", "done", "raised"}
         ]_vars

\* a run that extracted two items is between its two iterations: the second
\* item is extracted and only the first is stored
C17_Witness ==
    \E r \in Runs :
        /\ run[r].pc = "item_loop"
        /\ Extracted(r) = {1, 2}
        /\ Handled(r) = {1}
        /\ \E i \in Item : i.sourceId = run[r].source_id /\ i.number = run[r].items[1].number
        /\ ~ \E i \in Item : i.sourceId = run[r].source_id /\ i.number = run[r].items[2].number

\* the first three, in declaration order, of the keywords of the k-th
\* category that occur in combined
FirstMatched(k, combined) ==
    LET kws == CATEGORY_KEYWORDS[k].keywords
        found(i) == Contains(kws[i], combined)
    IN  {kws[i] : i \in {j \in DOMAIN kws :
                            /\ found(j)
                            /\ Cardinality({h \in 1..(j - 1) : found(h)}) < 3}}

\* C18: the tags categorize_content returns are, as a set, the first three
\* matched keywords of every category other than the default one, whichever
\* category it returns; when no keyword matches it returns the default
\* category and no tag.
C18_TagsUnion ==
    applied.fn = "categorize_content" =>
        LET combined == SearchString(applied.title, applied.text)
        IN  /\ applied.result.tags = UNION {FirstMatched(k, combined) : k \in NonDefault}
            /\ (\A k \in NonDefault : MatchCount(k, combined) = 0) =>
                  applied.result = [category |-> "general", tags |-> {}]

\* a text with four keywords of "documentation" and one of "news" has got the
\* first three of the former and the one of the latter as its tags
C18_Witness ==
    /\ applied.fn = "categorize_content"
    /\ applied.text = "docs guide tutorial manual news"
    /\ applied.title = ""
    /\ applied.result.category = "documentation"
    /\ applied.result.tags = {"docs", "guide", "tutorial", "news"}
    /\ MatchCount(1, applied.text) = 4

\* C19: an insert_item for a key that has a row keeps the row's id, sourceId,
\* number and sourceUrl, whatever url the call supplies; the row is the only
\* one that changes and no row is added.
C19_ItemConflictFrame ==
    [][\A r \in Runs :
          InsertItemStep(r) =>
              \A old \in Item :
                  (/\ old.sourceId = run[r].source_id
                   /\ old.number = run[r].items[run[r].idx].number) =>
                      \E new \in Item' :
                          /\ new.id = old.id
                          /\ new.sourceId = old.sourceId
                          /\ new.number = old.number
                          /\ new.sourceUrl = old.sourceUrl
                          /\ Item' = (Item \ {old}) \cup {new}
      ]_vars

\* the row stored from the guide element has been overwritten by an upsert
\* of the press element, whose url is another: it has the new title and the
\* old url
C19_Witness ==
    \E i \in Item, r \in Runs :
        /\ i.sourceId = run[r].source_id
        /\ run[r].idx > 1
        /\ run[r].items[1].number = i.number
        /\ run[r].items[1].title = i.title
        /\ run[r].items[1].url # i.sourceUrl
        /\ i.title = "Press Release"
        /\ i.sourceUrl = "https://example.com/docs/guide"

\* C20: every Item row belongs to a Source row of the store; a run that has
\* upserted an item has upserted its Source before, and each of its item
\* upserts writes a row under the id of the Source row of its target's name.
C20_ItemsHaveSource ==
    /\ [](/\ \A i \in Item : \E s \in Source : s.id = i.sourceId
          /\ \A r \in Runs :
                (run[r].pc = "item_loop" \/ "insert_item" \in run[r].calls) =>
                    /\ "insert_source" \in run[r].calls
                    /\ \E s \in Source : /\ s.id = run[r].source_id
                                         /\ s.name = run[r].target.name)
    /\ [][\A r \in Runs :
            /\ InsertItemStep(r) =>
                  /\ "insert_source" \in run[r].calls
                  /\ \E i \in Item' : /\ i.sourceId = run[r].source_id
                                      /\ i.number = run[r].items[run[r].idx].number
                                      /\ i.scrapedAt = now
                  /\ \A i \in Item' \ Item : i.sourceId = run[r].source_id
            /\ (run[r].pc = "item_loop" /\ run'[r].pc = "item_loop") =>
                  run'[r].source_id = run[r].source_id
         ]_vars

\* a run whose Source upsert met the row of an earlier run has stored two
\* items under that row's id
C20_Witness ==
    \E r \in Runs, s \in Source :
        /\ run[r].pc = "done"
        /\ run[r].result.status = "success"
        /\ run[r].result.items = 2
        /\ s.id = run[r].source_id
        /\ s.updatedAt > s.createdAt
        /\ s.slug # run[r].target.slug
        /\ Cardinality({i \in Item : i.sourceId = s.id}) = 2

\* run r, not forced, is at its skip-check and a Source row of its target's
\* name has been committed
SkipDue(r) ==
    /\ run[r].pc = "skip_check"
    /\ ~run[r].force
    /\ \E s \in Source : s.name = run[r].target.name

\* run r is on the skip branch: due to take it, or at one of its two queries
OnSkipBranch(r) ==
    SkipDue(r) \/ run[r].pc \in {"get_source_id", "get_item_count"}

\* C21: a run that is not forced and reaches its skip-check once a Source
\* row of its target's name is committed takes the skip branch, whatever the
\* number of items of that Source, zero included: its next three steps, each
\* of which it can take, are the skip-check, get_source_id and get_item_count,
\* and the last returns skipped with the number of items of that Source.
C21_SkippedOnceSourceExists ==
    /\ [](\A r \in Runs :
            /\ (run[r].pc \in {"get_source_id", "get_item_count"}
                  \/ run[r].result.status = "skipped") =>
                  /\ ~run[r].force
                  /\ \E s \in Source : s.name = run[r].target.name
            /\ OnSkipBranch(r) => ENABLED RunStep(r))
    /\ [][\A r \in Runs :
            (OnSkipBranch(r) /\ run'[r] # run[r]) =>
                /\ run'[r].target = run[r].target
                /\ run[r].pc = "skip_check" => run'[r].pc = "get_source_id"
                /\ run[r].pc = "get_source_id" => run'[r].pc = "get_item_count"
                /\ run[r].pc = "get_item_count" =>
                      /\ run'[r].pc = "done"
                      /\ run'[r].result.status = "skipped"
                      /\ run'[r].result.items =
                            Cardinality(ItemsOfName(run[r].target.name))
         ]_vars

\* C21, as a statement of what eventually happens when every call goes on
\* to its next statement: the run returns skipped.
C21_EventuallySkipped ==
    \A r \in Runs :
        SkipDue(r) ~> (/\ run[r].pc = "done"
                       /\ run[r].result.status = "skipped"
                       /\ ~run[r].force)

\* a run has been skipped with items 0 for a Source whose only run stored
\* nothing, each of its items having failed
C21_Witness ==
    \E r, q \in Runs :
        /\ r # q
        /\ run[q].pc = "done"
        /\ run[q].result.status = "success"
        /\ run[q].result.items = 0
        /\ run[q].result.errors > 0
        /\ run[r].pc = "done"
        /\ run[r].result.status = "skipped"
        /\ run[r].result.items = 0
        /\ run[r].target.name = run[q].target.name
        /\ Item = {}

\* the numbers of the items run r extracted are pairwise distinct
DistinctNumbers(r) ==
    \A j, k \in DOMAIN run[r].items :
        j # k => run[r].items[j].number # run[r].items[k].number

\* run r has returned success and its insert_source is the only one the
\* Source row it wrote under has ever had: the row is as it was created
\* (updatedAt = createdAt, which every later upsert moves apart).  This is
\* the case of a run that found no Source row of its target's name and had
\* no run for that name beside it or after it.
SucceededAlone(r) ==
    /\ run[r].pc = "done"
    /\ run[r].result.status = "success"
    /\ DistinctNumbers(r)
    /\ \E s \in Source : /\ s.id = run[r].source_id
                         /\ s.name = run[r].target.name
                         /\ s.updatedAt = s.createdAt

\* C22: after such a run the number of Item rows of its Source equals the
\* items value of its result, and a run for the same name that is not forced
\* and counts the items after it has returned reports skipped with that same
\* value.
C22_CountEqualsItems ==
    /\ [](\A r \in Runs :
            SucceededAlone(r) =>
                Cardinality({i \in Item : i.sourceId = run[r].source_id})
                    = run[r].result.items)
    /\ [][\A r, q \in Runs :
            (/\ r # q
             /\ SucceededAlone(r)
             /\ run[q].pc = "get_item_count"
             /\ run'[q].pc # "get_item_count"
             /\ run[q].target.name = run[r].target.name) =>
                /\ ~run[q].force
                /\ run'[q].result = [status |-> "skipped",
                                     target |-> run[r].target.name,
                                     items |-> run[r].result.items]
         ]_vars

\* a run that stored one of its two items and failed on the other has been
\* followed by a run that reports skipped with items 1
C22_Witness ==
    \E r, q \in Runs :
        /\ r # q
        /\ SucceededAlone(r)
        /\ Len(run[r].items) = 2
        /\ run[r].result.items = 1
        /\ run[r].result.errors = 1
        /\ run[q].pc = "done"
        /\ run[q].result.status = "skipped"
        /\ run[q].target.name = run[r].target.name
        /\ run[q].result.items = 1
        /\ started = 2

====
